---- MODULE Spec2Model ----
(***************************************************************************)
(* A model of server.py, the YouTube MCP server: the configuration read at  *)
(* import, the request records and their validators, the transport helper   *)
(* _make_api_request, the error formatter _handle_api_error and the five    *)
(* tools.  One invocation is in flight at a time; the remote services (the  *)
(* transcript collaborator and the YouTube Data API) answer                 *)
(* nondeterministically.                                                    *)
(*                                                                         *)
(* A text (a message, a query, an identifier, a transcript) is a sequence   *)
(* of string tokens; concatenation of texts is \o.  A JSON object is a      *)
(* record, a missing key is a field outside its DOMAIN.                     *)
(***************************************************************************)
EXTENDS Integers, Sequences, FiniteSets, TLC

VARIABLES
    environ,       \* os.environ["YOUTUBE_API_KEY"]: [set, value]
    ConfigKey,     \* Config.YOUTUBE_API_KEY
    server,        \* "init" | "serving" | "failed" (import of the module)
    startupError,  \* message of the ValueError raised by Config.validate
    pc,            \* position of the invocation in flight
    tool,          \* the tool invoked
    args,          \* the raw arguments the host received
    request,       \* the validated request record
    calls,         \* the network calls issued during this invocation
    outcome,       \* what YouTubeTranscriptApi.get_transcript did
    transcript,    \* local variable transcript of get_youtube_transcript
    response,      \* the HTTP response _make_api_request received
    result,        \* the response record returned to the caller
    error          \* the error raised to the caller

vars == <<environ, ConfigKey, server, startupError, pc, tool, args, request,
          calls, outcome, transcript, response, result, error>>

(***************************************************************************)
(* Bounds of the model.                                                     *)
(***************************************************************************)
MaxIdLen == 12
MaxQueryLen == 3
MaxItems == 2
MaxFragments == 2

(***************************************************************************)
(* Program constants.                                                       *)
(***************************************************************************)
VideoIdLen == 11
MinResults == 1
SearchMaxResults == 50
SearchDefault == 5
CommentsMaxResults == 100
CommentsDefault == 20
StatusOK == 200

Tools == {"get_youtube_transcript", "youtube_search_videos",
          "youtube_get_video_details", "youtube_get_comments",
          "youtube_list_channel_videos"}
IdTools == {"get_youtube_transcript", "youtube_get_video_details",
            "youtube_get_comments"}
SearchTools == {"youtube_search_videos", "youtube_list_channel_videos"}
LimitTools == SearchTools \cup {"youtube_get_comments"}

(***************************************************************************)
(* Texts.                                                                   *)
(***************************************************************************)
Whitespace == {" ", "\t"}
QueryChars == Whitespace \cup {"a"}
IdChars == {"a", "b"}

RECURSIVE Repeat(_, _)
Repeat(c, n) == IF n = 0 THEN <<>> ELSE <<c>> \o Repeat(c, n - 1)

SeqsUpTo(S, n) == UNION { [1..k -> S] : k \in 0..n }

\* str.lstrip(): leading whitespace removed
RECURSIVE LStrip(_)
LStrip(s) ==
    IF s = <<>> THEN <<>>
    ELSE IF Head(s) \in Whitespace THEN LStrip(Tail(s)) ELSE s

\* str.rstrip(): trailing whitespace removed
RECURSIVE RStrip(_)
RStrip(s) ==
    IF s = <<>> THEN <<>>
    ELSE IF s[Len(s)] \in Whitespace THEN RStrip(SubSeq(s, 1, Len(s) - 1)) ELSE s

\* str.strip()
Strip(s) == RStrip(LStrip(s))

\* " ".join(parts)
RECURSIVE Join(_)
Join(parts) ==
    IF parts = <<>> THEN <<>>
    ELSE IF Len(parts) = 1 THEN <<parts[1]>>
    ELSE <<parts[1], " ">> \o Join(Tail(parts))

Contains(text, token) == \E i \in 1..Len(text) : text[i] = token

StartsWith(text, prefix) ==
    Len(text) >= Len(prefix) /\ SubSeq(text, 1, Len(prefix)) = prefix

(***************************************************************************)
(* Errors and results.                                                      *)
(***************************************************************************)
NoError == [cause |-> "none", orig |-> <<>>, msg |-> <<>>]
NoResult == [kind |-> "none"]
NoRequest == [model |-> "none"]
NoArgs == [none |-> TRUE]
NoOutcome == [raised |-> FALSE, reason |-> "", fragments |-> <<>>, called |-> FALSE]
NoResponse == [status |-> 0, text |-> "", json |-> [invalid |-> TRUE]]

ApiErrorPrefix == <<"API Error: ">>

\* a formatter that returns the message without the prefix
HandleApiError_NoPrefix(orig) == orig

\* _handle_api_error(e): f"API Error: {str(e)}"
HandleApiError(orig) == ApiErrorPrefix \o orig

\* except Exception as e: raise ValueError(_handle_api_error(e))
Wrapped(cause, orig) ==
    [cause |-> cause, orig |-> orig, msg |-> HandleApiError(orig)]

\* str(KeyError(k)) is the repr of the key
KeyError(k) == <<"'" \o k \o "'">>

(***************************************************************************)
(* Results of a step that may raise.                                        *)
(***************************************************************************)
Ok(value) == [ok |-> TRUE, value |-> value, cause |-> "none", orig |-> <<>>]
Raise(cause, orig) == [ok |-> FALSE, value |-> NoResult, cause |-> cause, orig |-> orig]

\* obj[path[1]][path[2]]...: the first missing key raises KeyError
RECURSIVE Lookup(_, _)
Lookup(obj, path) ==
    IF Head(path) \notin DOMAIN obj
    THEN Raise("extraction", KeyError(Head(path)))
    ELSE IF Len(path) = 1
         THEN Ok([v |-> obj[Head(path)]])
         ELSE Lookup(obj[Head(path)], Tail(path))

(***************************************************************************)
(* Config: the class body reads the environment, validate() checks it.      *)
(***************************************************************************)
Unset == [set |-> FALSE, value |-> ""]
EnvValues == {Unset} \cup {[set |-> TRUE, value |-> v] : v \in {"", "key1", "key2"}}

\* os.getenv("YOUTUBE_API_KEY"): None when unset
GetEnv(env) == env

\* not cls.YOUTUBE_API_KEY: None and "" are falsy
Falsy(v) == ~v.set \/ v.value = ""

\* Config.validate: the errors collected, one per missing variable
ConfigErrors(key) ==
    IF Falsy(key) THEN <<"YOUTUBE_API_KEY is required">> ELSE <<>>

RECURSIVE Bullets(_)
Bullets(errors) ==
    IF errors = <<>> THEN <<>>
    ELSE IF Len(errors) = 1 THEN <<"  - ", errors[1]>>
    ELSE <<"  - ", errors[1], "\n">> \o Bullets(Tail(errors))

ConfigErrorMsg(errors) ==
    <<"Missing required environment variables:\n">> \o Bullets(errors)
        \o <<"\n\nSee module docstring for configuration details.">>

\* import of the module: class Config, then Config.validate()
Startup ==
    /\ server = "init"
    /\ ConfigKey' = GetEnv(environ)
    /\ LET errors == ConfigErrors(GetEnv(environ)) IN
         IF errors # <<>>
         THEN /\ server' = "failed"
              /\ startupError' = ConfigErrorMsg(errors)
         ELSE /\ server' = "serving"
              /\ startupError' = <<>>
    /\ UNCHANGED <<environ, pc, tool, args, request, calls, outcome,
                   transcript, response, result, error>>

\* the environment of the process changes (os.environ, putenv)
EnvChange(v) ==
    /\ environ # v
    /\ environ' = v
    /\ UNCHANGED <<ConfigKey, server, startupError, pc, tool, args, request,
                   calls, outcome, transcript, response, result, error>>

(***************************************************************************)
(* Request records and their validators.                                    *)
(***************************************************************************)
RequestModel(t) ==
    CASE t = "get_youtube_transcript" -> "TranscriptRequest"
      [] t = "youtube_get_video_details" -> "VideoDetailsRequest"
      [] t = "youtube_get_comments" -> "CommentsRequest"
      [] t \in SearchTools -> "SearchRequest"

VideoIdMsg == "video_id must be exactly 11 characters"
QueryMsg == "query cannot be empty"

\* a validator that only rejects identifiers that are too long
VideoIdRejected_TooLongOnly(v) == Len(v) > VideoIdLen

\* validate_video_id: if not v or len(v) != 11: raise
VideoIdRejected(v) == v = <<>> \/ Len(v) # VideoIdLen

VideoIdErrors(a) ==
    IF VideoIdRejected(a.video_id)
    THEN <<[field |-> "video_id", reason |-> VideoIdMsg]>>
    ELSE <<>>

\* validate_query: if not v or not v.strip(): raise
QueryRejected(v) == v = <<>> \/ Strip(v) = <<>>

\* a validator that checks the stripped query and returns the raw one
ValidatedQuery_Raw(v) == v

\* validate_query returns v.strip()
ValidatedQuery(v) == Strip(v)

QueryErrors(a) ==
    IF QueryRejected(a.query)
    THEN <<[field |-> "query", reason |-> QueryMsg]>>
    ELSE <<>>

\* lt=50 in place of le=50
SearchLimitRejected_Exclusive(n) == n < MinResults \/ n >= SearchMaxResults

\* Field(..., ge=1, le=50)
SearchLimitRejected(n) == n < MinResults \/ n > SearchMaxResults

\* Field(..., ge=1, le=100)
CommentsLimitRejected(n) == n < MinResults \/ n > CommentsMaxResults

LimitReason(n) ==
    IF n < MinResults THEN "greater_than_equal" ELSE "less_than_equal"

\* a field given no value takes its default, which is not validated
MaxResultsErrors(a, rejected) ==
    IF rejected
    THEN <<[field |-> "max_results", reason |-> LimitReason(a.max_results)]>>
    ELSE <<>>

MaxResultsOr(a, default) ==
    IF "max_results" \in DOMAIN a THEN a.max_results ELSE default

\* the errors of every field, in the order the fields are declared
ValidationErrors(t, a) ==
    CASE t \in {"get_youtube_transcript", "youtube_get_video_details"} ->
            VideoIdErrors(a)
      [] t = "youtube_get_comments" ->
            VideoIdErrors(a) \o
            MaxResultsErrors(a, "max_results" \in DOMAIN a
                                  /\ CommentsLimitRejected(a.max_results))
      [] t \in SearchTools ->
            QueryErrors(a) \o
            MaxResultsErrors(a, "max_results" \in DOMAIN a
                                  /\ SearchLimitRejected(a.max_results))

\* the record a valid construction yields
BuildRequest(t, a) ==
    CASE t \in {"get_youtube_transcript", "youtube_get_video_details"} ->
            [model |-> RequestModel(t), video_id |-> a.video_id]
      [] t = "youtube_get_comments" ->
            [model |-> RequestModel(t), video_id |-> a.video_id,
             max_results |-> MaxResultsOr(a, CommentsDefault)]
      [] t \in SearchTools ->
            [model |-> RequestModel(t), query |-> ValidatedQuery(a.query),
             max_results |-> MaxResultsOr(a, SearchDefault)]

RECURSIVE ErrorLines(_)
ErrorLines(errors) ==
    IF errors = <<>> THEN <<>>
    ELSE <<errors[1].field, errors[1].reason>> \o ErrorLines(Tail(errors))

\* the ValidationError the construction of the record raises: it is raised
\* where the record is built, before the tool's body and outside its try.
ValidationFailure(t, errors) ==
    LET m == <<"validation error for " \o RequestModel(t)>> \o ErrorLines(errors)
    IN  [cause |-> "validation", orig |-> m, msg |-> m]

(***************************************************************************)
(* What the host may pass, and what the remote services may answer.         *)
(***************************************************************************)
VideoIds == { Repeat(c, n) : c \in IdChars, n \in 0..MaxIdLen }
Queries == SeqsUpTo(QueryChars, MaxQueryLen)
\* the limits at and next to each declared bound
LimitInputs ==
    {MinResults - 1, MinResults, SearchMaxResults, SearchMaxResults + 1,
     CommentsMaxResults, CommentsMaxResults + 1}

ArgsOf(t) ==
    CASE t \in {"get_youtube_transcript", "youtube_get_video_details"} ->
            { [video_id |-> v] : v \in VideoIds }
      [] t = "youtube_get_comments" ->
            { [video_id |-> v] : v \in VideoIds } \cup
            { [video_id |-> v, max_results |-> n] : v \in VideoIds, n \in LimitInputs }
      [] t \in SearchTools ->
            { [query |-> q] : q \in Queries } \cup
            { [query |-> q, max_results |-> n] : q \in Queries, n \in LimitInputs }

\* YouTubeTranscriptApi.get_transcript: raises, or returns caption fragments
Fragments == { [text |-> "Never"], [text |-> "gonna"], [start |-> "0.0"] }
TranscriptOutcomes ==
    { [raised |-> TRUE, reason |-> r, fragments |-> <<>>, called |-> TRUE] :
        r \in {"TranscriptsDisabled", "NoTranscriptFound"} } \cup
    { [raised |-> FALSE, reason |-> "", fragments |-> f, called |-> TRUE] :
        f \in SeqsUpTo(Fragments, MaxFragments) }

Endpoint(t) ==
    CASE t \in {"get_youtube_transcript", "youtube_get_video_details"} -> "videos"
      [] t = "youtube_get_comments" -> "commentThreads"
      [] t \in SearchTools -> "search"

VideoItems ==
    { [snippet |-> [title |-> "T1", description |-> "D1", publishedAt |-> "2020-01-01T00:00:00Z"]],
      [snippet |-> [title |-> "T2", description |-> "D2"]],
      [etag |-> "e"] }
SearchItems ==
    { [id |-> [videoId |-> "vidA"], snippet |-> [title |-> "tA", description |-> "dA"]],
      [id |-> [videoId |-> "vidB"], snippet |-> [title |-> "tB", description |-> "dB"]],
      [id |-> [channelId |-> "chan"], snippet |-> [title |-> "tC"]] }
CommentItems ==
    { [snippet |-> [topLevelComment |-> [snippet |-> [textDisplay |-> "first"]]]],
      [snippet |-> [topLevelComment |-> [snippet |-> [textDisplay |-> "second"]]]],
      [snippet |-> [videoId |-> "vidA"]] }

ItemsOf(endpoint) ==
    CASE endpoint = "videos" -> VideoItems
      [] endpoint = "search" -> SearchItems
      [] endpoint = "commentThreads" -> CommentItems

NotJson == [invalid |-> TRUE]
ErrorStatuses == {204, 404, 500}

\* an HTTP response: its status, its raw text, its body parsed (when it parses)
Responses(endpoint) ==
    { [status |-> StatusOK, text |-> "raw", json |-> [items |-> s]] :
        s \in SeqsUpTo(ItemsOf(endpoint), MaxItems) } \cup
    { [status |-> StatusOK, text |-> "raw", json |-> [kind |-> "youtube#listResponse"]],
      [status |-> StatusOK, text |-> "<html>", json |-> NotJson] } \cup
    { [status |-> c, text |-> b, json |-> NotJson] :
        c \in ErrorStatuses, b \in {"quotaExceeded", "notFound"} }

(***************************************************************************)
(* _make_api_request.                                                       *)
(***************************************************************************)
\* the key read from the environment at each request
ApiKeyParam_FromEnv == environ

\* params['key'] = Config.YOUTUBE_API_KEY
ApiKeyParam == ConfigKey

BaseUrl == "https://www.googleapis.com/youtube/v3/"

\* the url and params each tool builds; _make_api_request adds the key
ApiCall(t, req) ==
    CASE t \in {"get_youtube_transcript", "youtube_get_video_details"} ->
            [kind |-> "GET", url |-> BaseUrl \o "videos",
             params |-> [id |-> req.video_id, part |-> "snippet",
                         key |-> ApiKeyParam]]
      [] t = "youtube_get_comments" ->
            [kind |-> "GET", url |-> BaseUrl \o "commentThreads",
             params |-> [videoId |-> req.video_id, part |-> "snippet",
                         maxResults |-> req.max_results, key |-> ApiKeyParam]]
      [] t \in SearchTools ->
            [kind |-> "GET", url |-> BaseUrl \o "search",
             params |-> [q |-> req.query, part |-> "snippet", type |-> "video",
                         maxResults |-> req.max_results, key |-> ApiKeyParam]]

TransportMsg(resp) ==
    <<"API request failed: ", ToString(resp.status), " - ", resp.text>>

\* only client and server errors (>= 400) treated as failures
MakeApiRequest_From400(resp) ==
    IF resp.status >= 400
    THEN Raise("transport", TransportMsg(resp))
    ELSE IF "invalid" \in DOMAIN resp.json
         THEN Raise("decode", <<"JSONDecodeError">>)
         ELSE Ok(resp.json)

\* if response.status_code != 200: raise ValueError(...); return response.json()
MakeApiRequest(resp) ==
    IF resp.status # StatusOK
    THEN Raise("transport", TransportMsg(resp))
    ELSE IF "invalid" \in DOMAIN resp.json
         THEN Raise("decode", <<"JSONDecodeError">>)
         ELSE Ok(resp.json)

(***************************************************************************)
(* get_youtube_transcript.                                                  *)
(***************************************************************************)
\* [item['text'] for item in transcript_list]
RECURSIVE FragmentTexts(_)
FragmentTexts(fragments) ==
    IF fragments = <<>> THEN Ok([v |-> <<>>])
    ELSE LET t == Lookup(Head(fragments), <<"text">>) IN
         IF ~t.ok THEN t
         ELSE LET rest == FragmentTexts(Tail(fragments)) IN
              IF ~rest.ok THEN rest
              ELSE Ok([v |-> <<t.value.v>> \o rest.value.v])

\* a first step that falls back to an empty transcript when the
\* collaborator raises
TranscriptText_Fallback(out) ==
    IF out.raised THEN Ok([v |-> <<>>])
    ELSE LET texts == FragmentTexts(out.fragments) IN
         IF ~texts.ok THEN texts ELSE Ok([v |-> Join(texts.value.v)])

\* the first try block: the collaborator's call and the join
TranscriptText(out) ==
    IF out.raised THEN Raise("transcript", <<out.reason>>)
    ELSE LET texts == FragmentTexts(out.fragments) IN
         IF ~texts.ok THEN texts ELSE Ok([v |-> Join(texts.value.v)])

\* if not data['items']: raise ValueError("Video not found")
\* snippet = data['items'][0]['snippet']
TranscriptSnippet(data) ==
    IF "items" \notin DOMAIN data THEN Raise("extraction", KeyError("items"))
    ELSE IF data.items = <<>> THEN Raise("not_found", <<"Video not found">>)
    ELSE Lookup(data.items[1], <<"snippet">>)

\* the second try block and the return
TranscriptMetadata(req, text, resp) ==
    LET data == MakeApiRequest(resp) IN
    IF ~data.ok THEN data
    ELSE LET snippet == TranscriptSnippet(data.value) IN
    IF ~snippet.ok THEN snippet
    ELSE LET title == Lookup(snippet.value.v, <<"title">>) IN
    IF ~title.ok THEN title
    ELSE LET description == Lookup(snippet.value.v, <<"description">>) IN
    IF ~description.ok THEN description
    ELSE Ok([kind |-> "TranscriptResponse", transcript |-> text,
             video_title |-> title.value.v,
             video_description |-> description.value.v])

(***************************************************************************)
(* youtube_get_video_details.                                               *)
(***************************************************************************)
\* no check of the empty list: data['items'][0] raises IndexError
DetailsSnippet_NoEmptyCheck(data) ==
    IF "items" \notin DOMAIN data THEN Raise("extraction", KeyError("items"))
    ELSE IF data.items = <<>> THEN Raise("extraction", <<"list index out of range">>)
    ELSE Lookup(data.items[1], <<"snippet">>)

\* if not data['items']: raise ValueError("Video not found")
\* snippet = data['items'][0]['snippet']
DetailsSnippet(data) ==
    IF "items" \notin DOMAIN data THEN Raise("extraction", KeyError("items"))
    ELSE IF data.items = <<>> THEN Raise("not_found", <<"Video not found">>)
    ELSE Lookup(data.items[1], <<"snippet">>)

YoutubeGetVideoDetails(req, resp) ==
    LET data == MakeApiRequest(resp) IN
    IF ~data.ok THEN data
    ELSE LET snippet == DetailsSnippet(data.value) IN
    IF ~snippet.ok THEN snippet
    ELSE LET title == Lookup(snippet.value.v, <<"title">>) IN
    IF ~title.ok THEN title
    ELSE LET description == Lookup(snippet.value.v, <<"description">>) IN
    IF ~description.ok THEN description
    ELSE LET published == Lookup(snippet.value.v, <<"publishedAt">>) IN
    IF ~published.ok THEN published
    ELSE Ok([kind |-> "VideoDetailsResponse", video_id |-> req.video_id,
             title |-> title.value.v, description |-> description.value.v,
             published_at |-> published.value.v])

(***************************************************************************)
(* youtube_search_videos and youtube_list_channel_videos.                   *)
(***************************************************************************)
\* data.get('items', [])
ItemsOrEmpty(data) == IF "items" \in DOMAIN data THEN data.items ELSE <<>>

\* the body of the loop: one item's projection
ProjectVideo(item) ==
    LET id == Lookup(item, <<"id", "videoId">>) IN
    IF ~id.ok THEN id
    ELSE LET title == Lookup(item, <<"snippet", "title">>) IN
    IF ~title.ok THEN title
    ELSE LET description == Lookup(item, <<"snippet", "description">>) IN
    IF ~description.ok THEN description
    ELSE Ok([video_id |-> id.value.v, title |-> title.value.v,
             description |-> description.value.v])

\* a loop that inserts each projection at the front
RECURSIVE ProjectVideos_Reversed(_)
ProjectVideos_Reversed(items) ==
    IF items = <<>> THEN Ok([v |-> <<>>])
    ELSE LET first == ProjectVideo(Head(items)) IN
         IF ~first.ok THEN first
         ELSE LET rest == ProjectVideos_Reversed(Tail(items)) IN
              IF ~rest.ok THEN rest
              ELSE Ok([v |-> rest.value.v \o <<first.value>>])

\* a loop that skips the items it cannot project
RECURSIVE ProjectVideos_SkipBad(_)
ProjectVideos_SkipBad(items) ==
    IF items = <<>> THEN Ok([v |-> <<>>])
    ELSE LET first == ProjectVideo(Head(items))
             rest == ProjectVideos_SkipBad(Tail(items)) IN
         IF ~first.ok THEN rest
         ELSE Ok([v |-> <<first.value>> \o rest.value.v])

\* the loop: videos.append(...) for each item, in order
RECURSIVE ProjectVideos(_)
ProjectVideos(items) ==
    IF items = <<>> THEN Ok([v |-> <<>>])
    ELSE LET first == ProjectVideo(Head(items)) IN
         IF ~first.ok THEN first
         ELSE LET rest == ProjectVideos(Tail(items)) IN
              IF ~rest.ok THEN rest
              ELSE Ok([v |-> <<first.value>> \o rest.value.v])

YoutubeSearchVideos(req, resp) ==
    LET data == MakeApiRequest(resp) IN
    IF ~data.ok THEN data
    ELSE LET videos == ProjectVideos(ItemsOrEmpty(data.value)) IN
    IF ~videos.ok THEN videos
    ELSE Ok([kind |-> "SearchResponse", videos |-> videos.value.v])

YoutubeListChannelVideos(req, resp) ==
    LET data == MakeApiRequest(resp) IN
    IF ~data.ok THEN data
    ELSE LET videos == ProjectVideos(ItemsOrEmpty(data.value)) IN
    IF ~videos.ok THEN videos
    ELSE Ok([kind |-> "SearchResponse", videos |-> videos.value.v])

(***************************************************************************)
(* youtube_get_comments.                                                    *)
(***************************************************************************)
CommentPath == <<"snippet", "topLevelComment", "snippet", "textDisplay">>

RECURSIVE CommentTexts(_)
CommentTexts(items) ==
    IF items = <<>> THEN Ok([v |-> <<>>])
    ELSE LET first == Lookup(Head(items), CommentPath) IN
         IF ~first.ok THEN first
         ELSE LET rest == CommentTexts(Tail(items)) IN
              IF ~rest.ok THEN rest
              ELSE Ok([v |-> <<first.value.v>> \o rest.value.v])

YoutubeGetComments(req, resp) ==
    LET data == MakeApiRequest(resp) IN
    IF ~data.ok THEN data
    ELSE LET comments == CommentTexts(ItemsOrEmpty(data.value)) IN
    IF ~comments.ok THEN comments
    ELSE Ok([kind |-> "CommentsResponse", comments |-> comments.value.v])

\* what the tool does with the response of its GET
ToolBody(t, req, text, resp) ==
    CASE t = "get_youtube_transcript" -> TranscriptMetadata(req, text, resp)
      [] t = "youtube_get_video_details" -> YoutubeGetVideoDetails(req, resp)
      [] t = "youtube_get_comments" -> YoutubeGetComments(req, resp)
      [] t = "youtube_search_videos" -> YoutubeSearchVideos(req, resp)
      [] t = "youtube_list_channel_videos" -> YoutubeListChannelVideos(req, resp)

(***************************************************************************)
(* The state machine.                                                       *)
(***************************************************************************)
Init ==
    /\ environ \in EnvValues
    /\ ConfigKey = Unset
    /\ server = "init"
    /\ startupError = <<>>
    /\ pc = "idle"
    /\ tool = "none"
    /\ args = NoArgs
    /\ request = NoRequest
    /\ calls = <<>>
    /\ outcome = NoOutcome
    /\ transcript = <<>>
    /\ response = NoResponse
    /\ result = NoResult
    /\ error = NoError

\* the host calls tool t with arguments a: the request record is built and
\* validated, and the tool's body is entered only with a valid record
Invoke(t, a) ==
    /\ server = "serving"
    /\ pc = "idle"
    /\ tool' = t
    /\ args' = a
    /\ LET errors == ValidationErrors(t, a) IN
         IF errors # <<>>
         THEN /\ error' = ValidationFailure(t, errors)
              /\ pc' = "failed"
              /\ request' = NoRequest
         ELSE /\ error' = NoError
              /\ pc' = IF t = "get_youtube_transcript" THEN "transcript" ELSE "request"
              /\ request' = BuildRequest(t, a)
    /\ UNCHANGED <<environ, ConfigKey, server, startupError, calls, outcome,
                   transcript, response, result>>

\* get_youtube_transcript, first try block
FetchTranscript(out) ==
    /\ pc = "transcript"
    /\ calls' = Append(calls, [kind |-> "transcript", video_id |-> request.video_id])
    /\ outcome' = out
    /\ LET text == TranscriptText(out) IN
         IF ~text.ok
         THEN /\ error' = Wrapped(text.cause, text.orig)
              /\ pc' = "failed"
              /\ transcript' = transcript
         ELSE /\ error' = error
              /\ pc' = "request"
              /\ transcript' = text.value.v
    /\ UNCHANGED <<environ, ConfigKey, server, startupError, tool, args,
                   request, response, result>>

\* _make_api_request up to the await of client.get
SendRequest ==
    /\ pc = "request"
    /\ calls' = Append(calls, ApiCall(tool, request))
    /\ pc' = "awaiting"
    /\ UNCHANGED <<environ, ConfigKey, server, startupError, tool, args,
                   request, outcome, transcript, response, result, error>>

\* the response arrives: the rest of _make_api_request and of the tool
ReceiveResponse ==
    /\ pc = "awaiting"
    /\ \E resp \in Responses(Endpoint(tool)) :
         /\ response' = resp
         /\ LET r == ToolBody(tool, request, transcript, resp) IN
              IF ~r.ok
              THEN /\ error' = Wrapped(r.cause, r.orig)
                   /\ pc' = "failed"
                   /\ result' = result
              ELSE /\ error' = error
                   /\ pc' = "done"
                   /\ result' = r.value
    /\ UNCHANGED <<environ, ConfigKey, server, startupError, tool, args,
                   request, calls, outcome, transcript>>

\* the invocation is over: its records are discarded
Return ==
    /\ pc \in {"done", "failed"}
    /\ pc' = "idle"
    /\ tool' = "none"
    /\ args' = NoArgs
    /\ request' = NoRequest
    /\ calls' = <<>>
    /\ outcome' = NoOutcome
    /\ transcript' = <<>>
    /\ response' = NoResponse
    /\ result' = NoResult
    /\ error' = NoError
    /\ UNCHANGED <<environ, ConfigKey, server, startupError>>

Next ==
    \/ Startup
    \/ \E v \in EnvValues : EnvChange(v)
    \/ \E t \in Tools : \E a \in ArgsOf(t) : Invoke(t, a)
    \/ \E out \in TranscriptOutcomes : FetchTranscript(out)
    \/ SendRequest
    \/ ReceiveResponse
    \/ Return

Spec == Init /\ [][Next]_vars

(***************************************************************************)
(* Properties.                                                              *)
(***************************************************************************)
InFlight == pc # "idle"
Finished == pc \in {"done", "failed"}
Answered == Finished /\ response # NoResponse
GetCalls == { i \in 1..Len(calls) : calls[i].kind = "GET" }

C2_BadIdRejectedBeforeNetwork ==
    (InFlight /\ tool \in IdTools
       /\ (args.video_id = <<>> \/ Len(args.video_id) # 11)) =>
        /\ pc = "failed"
        /\ Contains(error.msg, "video_id must be exactly 11 characters")
        /\ calls = <<>>
        /\ result = NoResult

C2_Witness ==
    /\ pc = "failed"
    /\ tool = "youtube_get_comments"
    /\ Len(args.video_id) = 5
    /\ calls = <<>>

\* C3: a limit below 1 or above the tool's maximum (50 for the two search
\* tools, 100 for the comments tool) is rejected and no network call is
\* issued; a limit inside the range, the bounds included, is not rejected and
\* is the maxResults of every GET of the invocation.
C3_LimitRangeEnforced ==
    (InFlight /\ tool \in LimitTools /\ "max_results" \in DOMAIN args) =>
        LET n == args.max_results
            top == IF tool = "youtube_get_comments" THEN 100 ELSE 50
        IN  IF n < 1 \/ n > top
            THEN /\ pc = "failed"
                 /\ error.cause = "validation"
                 /\ Contains(error.msg, "max_results")
                 /\ calls = <<>>
                 /\ result = NoResult
            ELSE /\ ~Contains(error.msg, "max_results")
                 /\ request # NoRequest => request.max_results = n
                 /\ pc \in {"awaiting", "done"} => GetCalls # {}
                 /\ \A i \in GetCalls : calls[i].params.maxResults = n

C3_Witness ==
    /\ pc = "awaiting"
    /\ tool = "youtube_get_comments"
    /\ "max_results" \in DOMAIN args
    /\ args.max_results = 100
    /\ calls[1].params.maxResults = 100

\* every character of q is whitespace (the empty query included)
OnlyWhitespace(q) == \A i \in 1..Len(q) : q[i] \in {" ", "\t"}

\* s is q without its leading and trailing whitespace
IsTrimOf(s, q) ==
    \E i \in 1..Len(q) : \E j \in i..Len(q) :
        /\ s = SubSeq(q, i, j)
        /\ q[i] \notin {" ", "\t"}
        /\ q[j] \notin {" ", "\t"}
        /\ \A k \in 1..(i - 1) : q[k] \in {" ", "\t"}
        /\ \A k \in (j + 1)..Len(q) : q[k] \in {" ", "\t"}

\* C4: an empty or all-whitespace query is rejected by both search tools
\* with no network call; for any other query the q of every GET is the
\* query without its leading and trailing whitespace.
C4_QueryTrimmedOrRejected ==
    (InFlight /\ tool \in SearchTools) =>
        IF OnlyWhitespace(args.query)
        THEN /\ pc = "failed"
             /\ error.cause = "validation"
             /\ Contains(error.msg, "query cannot be empty")
             /\ calls = <<>>
             /\ result = NoResult
        ELSE /\ ~Contains(error.msg, "query cannot be empty")
             /\ pc \in {"awaiting", "done"} => GetCalls # {}
             /\ \A i \in GetCalls : IsTrimOf(calls[i].params.q, args.query)

C4_Witness ==
    /\ pc = "awaiting"
    /\ tool = "youtube_list_channel_videos"
    /\ args.query = <<" ", "a", "\t">>
    /\ calls[1].params.q = <<"a">>

\* the collaborator raised, or a fragment it returned has no text
ExtractionFailed ==
    outcome.raised \/ \E i \in 1..Len(outcome.fragments) :
                         "text" \notin DOMAIN outcome.fragments[i]

\* the videos response is a 200 whose first item has a title and a description
MetadataSucceeded ==
    /\ response.status = 200
    /\ "items" \in DOMAIN response.json
    /\ response.json.items # <<>>
    /\ "snippet" \in DOMAIN response.json.items[1]
    /\ {"title", "description"} \subseteq DOMAIN response.json.items[1].snippet

\* C5: in get_youtube_transcript the extraction call comes first and the
\* videos GET second; a failed extraction ends the invocation with an error
\* and no GET; a failed metadata step ends it with an error; a
\* TranscriptResponse is returned only when both steps succeeded, and a
\* failed invocation returns none.
C5_TranscriptStepsSequential ==
    (InFlight /\ tool = "get_youtube_transcript") =>
        /\ Len(calls) <= 2
        /\ Len(calls) >= 1 => calls[1].kind = "transcript" /\ outcome.called
        /\ Len(calls) = 2 => calls[2].kind = "GET" /\ ~ExtractionFailed
        /\ (outcome.called /\ ExtractionFailed) =>
              /\ pc = "failed"
              /\ error.cause \in {"transcript", "extraction"}
              /\ Len(calls) = 1
        /\ (Answered /\ ~MetadataSucceeded) => pc = "failed"
        /\ pc = "failed" => result = NoResult /\ error # NoError
        /\ result # NoResult =>
              /\ pc = "done"
              /\ error = NoError
              /\ Len(calls) = 2
              /\ ~ExtractionFailed
              /\ MetadataSucceeded
              /\ result.kind = "TranscriptResponse"

C5_Witness ==
    /\ tool = "get_youtube_transcript"
    /\ pc = "failed"
    /\ outcome.raised
    /\ Len(calls) = 1
    /\ result = NoResult

\* C6: when the videos endpoint answers 200 with an empty item list, both
\* youtube_get_video_details and the metadata step of get_youtube_transcript
\* fail, with the message "API Error: Video not found".
C6_EmptyItemsVideoNotFound ==
    (Answered /\ tool \in {"get_youtube_transcript", "youtube_get_video_details"}
       /\ response.status = 200
       /\ "items" \in DOMAIN response.json
       /\ response.json.items = <<>>) =>
        /\ pc = "failed"
        /\ result = NoResult
        /\ error.msg = <<"API Error: ", "Video not found">>

C6_Witness ==
    /\ tool = "get_youtube_transcript"
    /\ pc = "failed"
    /\ response.status = 200
    /\ response.json = [items |-> <<>>]
    /\ transcript = <<"Never", " ", "gonna">>

\* C7: for every tool, a response whose status is not 200 yields no parsed
\* body: the tool fails with a wrapped message that holds the status code and
\* the raw body text; a 200 response never yields this transport error.
C7_Non200TransportError ==
    Answered =>
        IF response.status # 200
        THEN /\ pc = "failed"
             /\ result = NoResult
             /\ error.cause = "transport"
             /\ StartsWith(error.msg, <<"API Error: ">>)
             /\ Contains(error.msg, ToString(response.status))
             /\ Contains(error.msg, response.text)
        ELSE /\ error.cause # "transport"
             /\ ~Contains(error.msg, "API request failed: ")

C7_Witness ==
    /\ pc = "failed"
    /\ tool = "youtube_get_comments"
    /\ response.status = 204
    /\ error.msg = <<"API Error: ", "API request failed: ", "204", " - ", "notFound">>

\* the items of the remote response (none when it has no items key)
RemoteItems ==
    IF "items" \in DOMAIN response.json THEN response.json.items ELSE <<>>

\* C8: a successful youtube_search_videos or youtube_list_channel_videos
\* returns the projection of the remote items to {video_id, title,
\* description}, one entry per item and in the remote order, whatever
\* max_results is.
C8_SearchIsExactProjection ==
    (pc = "done" /\ tool \in SearchTools) =>
        /\ result.kind = "SearchResponse"
        /\ Len(result.videos) = Len(RemoteItems)
        /\ \A i \in 1..Len(RemoteItems) :
              result.videos[i] =
                  [video_id |-> RemoteItems[i].id.videoId,
                   title |-> RemoteItems[i].snippet.title,
                   description |-> RemoteItems[i].snippet.description]

C8_Witness ==
    /\ pc = "done"
    /\ tool = "youtube_list_channel_videos"
    /\ request.max_results = 1
    /\ Len(result.videos) = 2
    /\ result.videos[1].video_id = "vidB"
    /\ result.videos[2].video_id = "vidA"

\* C9 (as stated): every SearchResult is no longer than the max_results of
\* its request, whatever the remote returned.
C9_LengthWithinLimit ==
    (pc = "done" /\ tool \in SearchTools) =>
        Len(result.videos) <= request.max_results

\* C9 (amended): a SearchResult is as long as the item list of the remote
\* response; it is no longer than max_results exactly when the remote
\* returned at most max_results items.
C9_LengthIsRemoteLength ==
    (pc = "done" /\ tool \in SearchTools) =>
        /\ Len(result.videos) = Len(RemoteItems)
        /\ Len(result.videos) <= request.max_results
              <=> Len(RemoteItems) <= request.max_results

C9_Witness ==
    /\ pc = "done"
    /\ tool = "youtube_search_videos"
    /\ request.max_results = 1
    /\ Len(RemoteItems) = 1
    /\ Len(result.videos) = 1

\* C10: when YOUTUBE_API_KEY is absent at startup, startup fails with an
\* error naming it and no tool is ever served; when it is present, the value
\* read at startup is never changed, whatever the environment does later, and
\* is the key of every GET.
C10_CredentialReadOnce ==
    /\ [](/\ server = "failed" =>
               /\ Contains(startupError, "YOUTUBE_API_KEY is required")
               /\ ~InFlight
               /\ calls = <<>>
          /\ server = "serving" => ConfigKey.set /\ ConfigKey.value # ""
          /\ InFlight => server = "serving"
          /\ \A i \in GetCalls : calls[i].params.key = ConfigKey)
    /\ [][/\ (server = "init" /\ server' # "init") =>
               IF environ.set THEN ConfigKey' = environ ELSE server' = "failed"
          /\ server # "init" => (server' = server /\ ConfigKey' = ConfigKey)]_vars

C10_Witness ==
    /\ server = "serving"
    /\ pc = "awaiting"
    /\ ConfigKey.value = "key1"
    /\ environ = Unset
    /\ calls[Len(calls)].params.key = [set |-> TRUE, value |-> "key1"]

====
